---- MODULE Spec2Model ----
(***************************************************************************)
(* A model of src/src/app.py, the Streamlit script of the AI Travel        *)
(* Planner.                                                                *)
(*                                                                         *)
(* Streamlit runs the whole script once per user interaction (a widget     *)
(* that changed, or a button that was clicked); widget values and          *)
(* st.session_state survive from one run to the next.  One action of the   *)
(* model is one such run of the script from its first line to its last.    *)
(*                                                                         *)
(* Text is modelled as a sequence of tokens.  A token is either a word of  *)
(* the vocabulary below (a destination name, a keyword in one of its       *)
(* spellings, a separator) or a literal stretch of a template of the       *)
(* source.  The templates are cut so that every occurrence of the letters  *)
(* "research", "itinerary" and "Offline Mode", in any case, is a token of  *)
(* its own; the other stretches hold none of them.  Characters outside     *)
(* ASCII (the emoji of the templates) are left out of the literals.        *)
(***************************************************************************)
EXTENDS Integers, Sequences, FiniteSets, TLC

\* Bounds of the model.
NumKeys == 2       \* distinct real API keys, besides "" and the placeholder
MaxDate == 2        \* the date pickers offer the days 1..MaxDate of one month
MaxRawLen == 4      \* longest raw destination text drawn for the parsing unit
MaxPromptLen == 3   \* longest prompt drawn for the offline-client unit
MaxNames == 4       \* longest destination list drawn for the prompt and filename units
MaxDays == 3        \* trip durations 1..MaxDays drawn for the prompt and filename units

VARIABLES
    env,                \* os.environ["HF_API_KEY"] after load_dotenv() ("" = unset)
    hf_api_key,         \* st.session_state.hf_api_key
    research_results,   \* st.session_state.research_results
    itinerary,          \* st.session_state.itinerary
    user_provided_key,  \* value of the sidebar's API-key text input
    destination,        \* value of the "Destination(s)" text input
    start_date,         \* value of the "Start Date" date input
    end_date,           \* value of the "End Date" date input
    destinations,       \* the script's global of the last run (line 281)
    num_days,           \* the script's global of the last run (line 298)
    AgentClass,         \* class chosen by the last run (lines 489-495), or "none"
    op,                 \* operation the last run executed: "none", "Research", "Plan", "Tips"
    prompt,             \* prompt handed to the agent's run() in the last run
    content,            \* response.content of the last run's operation
    client,             \* what get_hf_client() returned in the last run
    resolver_calls,     \* number of calls of get_hf_client() in the last run
    calls,              \* number of calls of client.chat_completion() in the last run
    raised,             \* message of the exception chat_completion() raised in the last run
    filename,           \* file_name of the download button the last run drew (line 649)
    earlier_prompt,     \* what an earlier call of a prompt builder returned (units only)
    pc                  \* "app" for the running script; the unit under test otherwise

vars == <<env, hf_api_key, research_results, itinerary, user_provided_key,
          destination, start_date, end_date, destinations, num_days, AgentClass,
          op, prompt, content, client, resolver_calls, calls, raised, filename,
          earlier_prompt, pc>>

----------------------------------------------------------------------------
\* Python's None and a present value; None is falsy, and so is the empty string.
None == <<>>

Some(x) == <<x>>

Truthy(opt) == opt # None /\ opt[1] # <<>>

----------------------------------------------------------------------------
\* Text.

\* The placeholder key get_hf_client() refuses.
Sentinel == "hf_demo_fallback"

UserKey(i) == "hf_key" \o ToString(i)

Keys == {"", Sentinel} \cup {UserKey(i) : i \in 1..NumKeys}

\* Characters str.strip() removes.
Whitespace == {" ", "\t"}

\* The words of the vocabulary that have an upper-case letter, with str.lower() of each.
Lower(w) ==
    CASE w = "Research" -> "research"
      [] w = "RESEARCH" -> "research"
      [] w = "Itinerary" -> "itinerary"
      [] w = "ITINERARY" -> "itinerary"
      [] w = "Tokyo" -> "tokyo"
      [] w = "Kyoto" -> "kyoto"
      [] w = "Japan" -> "japan"
      [] w = "Park" -> "park"
      [] w = "Honeymoon" -> "honeymoon"
      [] w = "Offline Mode" -> "offline mode"
      [] OTHER -> w

\* The words: tokens that are not a stretch of template text.
Words == {"Research", "RESEARCH", "research", "Itinerary", "ITINERARY", "itinerary",
          "Tokyo", "Kyoto", "Japan", "Park", "Honeymoon", "Offline Mode", "trip", " ", ","}

\* str.lower() of a text made of words.
LowerText(t) == [i \in DOMAIN t |-> IF t[i] \in Words THEN Lower(t[i]) ELSE t[i]]

\* kw in text.lower(), for a lower-case keyword kw: some word of the text is kw
\* once lowered.
ContainsLowered(t, kw) == \E i \in DOMAIN t : t[i] \in Words /\ Lower(t[i]) = kw

\* marker in text, case-sensitive.
Contains(t, marker) == \E i \in DOMAIN t : t[i] = marker

Digit(d) ==
    CASE d = 0 -> "0" [] d = 1 -> "1" [] d = 2 -> "2" [] d = 3 -> "3" [] d = 4 -> "4"
      [] d = 5 -> "5" [] d = 6 -> "6" [] d = 7 -> "7" [] d = 8 -> "8" [] d = 9 -> "9"

\* str(n) of a natural number, as in an f-string.
RECURSIVE Str(_)
Str(n) == IF n < 10 THEN <<Digit(n)>> ELSE Str(n \div 10) \o <<Digit(n % 10)>>

\* str(date): the ISO form; the dates of the model are the days of one month.
IsoFormat(d) == IF d < 10 THEN <<"2030-01-", "0">> \o Str(d) ELSE <<"2030-01-">> \o Str(d)

\* sep.join(list)
RECURSIVE Join(_, _)
Join(list, sep) ==
    IF list = <<>> THEN <<>>
    ELSE IF Len(list) = 1 THEN list[1]
    ELSE list[1] \o sep \o Join(Tail(list), sep)

CommaSpace == <<",", " ">>

\* text.replace(old, new): the occurrences of old, left to right, none overlapping.
RECURSIVE Replace(_, _, _)
Replace(s, old, new) ==
    IF Len(s) < Len(old) THEN s
    ELSE IF SubSeq(s, 1, Len(old)) = old
         THEN new \o Replace(SubSeq(s, Len(old) + 1, Len(s)), old, new)
         ELSE <<Head(s)>> \o Replace(Tail(s), old, new)

\* list[:n]
Take(list, n) == SubSeq(list, 1, IF Len(list) < n THEN Len(list) ELSE n)

\* special_requirements or 'None'
OrNone(special) == IF special = <<>> THEN <<"None">> ELSE special

\* All texts of at most n tokens over a vocabulary.
RECURSIVE TextsUpTo(_, _)
TextsUpTo(vocab, n) ==
    IF n = 0 THEN {<<>>}
    ELSE LET shorter == TextsUpTo(vocab, n - 1)
         IN  shorter \cup {<<w>> \o t : w \in vocab, t \in {s \in shorter : Len(s) = n - 1}}

----------------------------------------------------------------------------
\* Destination parsing (lines 280-289).

\* str.split(','): the segments between commas, empty ones included.
RECURSIVE Split(_)
Split(s) ==
    IF s = <<>> THEN << <<>> >>
    ELSE LET rest == Split(Tail(s))
         IN  IF Head(s) = "," THEN << <<>> >> \o rest
             ELSE << <<Head(s)>> \o rest[1] >> \o Tail(rest)

RECURSIVE LStrip(_)
LStrip(s) == IF s # <<>> /\ Head(s) \in Whitespace THEN LStrip(Tail(s)) ELSE s

RECURSIVE RStrip(_)
RStrip(s) ==
    IF s # <<>> /\ s[Len(s)] \in Whitespace THEN RStrip(SubSeq(s, 1, Len(s) - 1)) ELSE s

\* str.strip()
Strip(s) == RStrip(LStrip(s))

NonEmptyText(s) == s # <<>>

\* A variant that keeps the segments as they are, untrimmed.
ParseUntrimmed(raw) ==
    IF raw = <<>> THEN <<>> ELSE SelectSeq(Split(raw), NonEmptyText)

\* destinations = [dest.strip() for dest in destination.split(',') if dest.strip()],
\* and [] for an empty input.
ParseDestinations(raw) ==
    IF raw = <<>> THEN <<>>
    ELSE LET parts == Split(raw)
             stripped == [i \in DOMAIN parts |-> Strip(parts[i])]
         IN  SelectSeq(stripped, NonEmptyText)

\* num_days (lines 298-300): 0 unless the end date is on or after the start date.
NumDays(start, end) == IF end >= start THEN end - start ELSE 0

\* A variant that lets a trip of no days through.
ActionableAnyDates(raw, days, dests) == raw # <<>> /\ days >= 0 /\ dests # <<>>

\* The condition of line 487.
Actionable(raw, days, dests) == raw # <<>> /\ days > 0 /\ dests # <<>>

----------------------------------------------------------------------------
\* The texts of the offline client (lines 75-168) and the prompts (lines 335-486).

\* OfflineAgent._generate_research_template: the canned text, whatever the prompt.
generate_research_template(p) ==
       <<"\n",
         "         **", "Research", " Template** (", "Offline Mode", ")\n",
         "        \n",
         "        **Note**: This is a basic template. For detailed, AI-powered ", "research", ", please provide a valid HuggingFace API key.\n",
         "        \n",
         "        **Top Attractions**:\n",
         "        - Visit major landmarks and tourist attractions\n",
         "        - Explore local museums and cultural sites\n",
         "        - Experience natural attractions and parks\n",
         "        \n",
         "        **Accommodations**:\n",
         "        - ", "Research", " hotels in central locations\n",
         "        - Consider vacation rentals for longer stays\n",
         "        - Check reviews and amenities\n",
         "        \n",
         "        **Dining**:\n",
         "        - Try local specialties and traditional cuisine\n",
         "        - Visit highly-rated restaurants\n",
         "        - Explore local markets and street food\n",
         "        \n",
         "        **Transportation**:\n",
         "        - ", "Research", " public transportation options\n",
         "        - Consider ride-sharing or car rentals\n",
         "        - Plan airport transfers\n",
         "        \n",
         "        **Tips**:\n",
         "        - Check visa requirements\n",
         "        - ", "Research", " local customs and etiquette\n",
         "        - Download offline maps and translation apps\n",
         "        ">>

\* OfflineAgent._generate_itinerary_template: the canned text, whatever the prompt.
generate_itinerary_template(p) ==
       <<"\n",
         "         **", "Itinerary", " Template** (", "Offline Mode", ")\n",
         "        \n",
         "        **Note**: This is a basic template. For personalized, AI-powered itineraries, please provide a valid HuggingFace API key.\n",
         "        \n",
         "        **Day 1**: Arrival & City Overview\n",
         "        - Morning: Arrive and check-in to accommodation\n",
         "        - Afternoon: Explore city center and main attractions\n",
         "        - Evening: Welcome dinner at local restaurant\n",
         "        \n",
         "        **Day 2**: Cultural Exploration\n",
         "        - Morning: Visit museums and historical sites\n",
         "        - Afternoon: Guided city tour or walking tour\n",
         "        - Evening: Local entertainment or cultural show\n",
         "        \n",
         "        **Day 3**: Nature & Adventure\n",
         "        - Morning: Visit parks or natural attractions\n",
         "        - Afternoon: Outdoor activities based on location\n",
         "        - Evening: Sunset viewing and dinner\n",
         "        \n",
         "        **Additional Days**: \n",
         "        - Continue exploring based on your interests\n",
         "        - Mix of relaxation and adventure activities\n",
         "        - Shopping and souvenir hunting\n",
         "        - Day trips to nearby attractions\n",
         "        \n",
         "        **General Tips**:\n",
         "        - Book popular attractions in advance\n",
         "        - Allow flexibility for weather changes\n",
         "        - Keep emergency contacts handy\n",
         "        - Stay hydrated and take breaks\n",
         "        ">>

\* OfflineAgent._generate_tips_template: the canned text, whatever the prompt.
generate_tips_template(p) ==
       <<"\n",
         "         **Travel Tips Template** (", "Offline Mode", ")\n",
         "        \n",
         "        **Essential Preparations**:\n",
         "        - Check passport expiration dates\n",
         "        - ", "Research", " visa requirements\n",
         "        - Get travel insurance\n",
         "        - Notify banks of travel dates\n",
         "        \n",
         "        **Packing Tips**:\n",
         "        - Check weather forecasts\n",
         "        - Pack versatile clothing\n",
         "        - Bring necessary medications\n",
         "        - Don't forget chargers and adapters\n",
         "        \n",
         "        **Safety & Health**:\n",
         "        - ", "Research", " local emergency numbers\n",
         "        - Keep copies of important documents\n",
         "        - Stay aware of your surroundings\n",
         "        - Follow local health guidelines\n",
         "        \n",
         "        **Money Matters**:\n",
         "        - ", "Research", " local currency and exchange rates\n",
         "        - Have multiple payment methods\n",
         "        - Keep some cash for small purchases\n",
         "        - Understand tipping customs\n",
         "        ">>

\* create_multi_destination_research_prompt: the single-destination text for
\* one destination, the multi-destination text otherwise.
create_multi_destination_research_prompt(dests, days, style, trav, budget, ints, accom, mob, special) ==
    IF Len(dests) = 1 THEN
           <<"\n",
             "        ", "Research", " ">>
        \o dests[1]
        \o <<" for a ">>
        \o Str(days)
        \o <<"-day ">>
        \o LowerText(style)
        \o <<" trip for ">>
        \o Str(trav)
        \o <<" travelers.\n",
             "        Budget: ">>
        \o budget
        \o <<"\n",
             "        Interests: ">>
        \o Join(ints, CommaSpace)
        \o <<"\n",
             "        Accommodation preferences: ">>
        \o Join(accom, CommaSpace)
        \o <<"\n",
             "        Transportation: ">>
        \o mob
        \o <<"\n",
             "        Special requirements: ">>
        \o OrNone(special)
        \o <<"\n",
             "        \n",
             "        Provide comprehensive information about:\n",
             "        1. Top attractions and activities with current status and pricing\n",
             "        2. Recommended accommodations with availability and rates\n",
             "        3. Local dining options with recent reviews\n",
             "        4. Transportation methods and current schedules/costs\n",
             "        5. Cultural tips and local customs\n",
             "        6. Weather considerations for travel dates\n",
             "        7. Current budget estimates and cost breakdowns\n",
             "        8. Best neighborhoods to stay in\n",
             "        9. Day trip opportunities from the city\n",
             "        10. Shopping and entertainment options\n",
             "        ">>
    ELSE
        LET destinations_list == Join(dests, CommaSpace)
            days_per_destination == days \div Len(dests)
        IN
           <<"\n",
             "        ", "Research", " a ">>
        \o Str(days)
        \o <<"-day multi-destination ">>
        \o LowerText(style)
        \o <<" trip covering: ">>
        \o destinations_list
        \o <<"\n",
             "        For ">>
        \o Str(trav)
        \o <<" travelers with ">>
        \o budget
        \o <<" budget.\n",
             "        Interests: ">>
        \o Join(ints, CommaSpace)
        \o <<"\n",
             "        Accommodation preferences: ">>
        \o Join(accom, CommaSpace)
        \o <<"\n",
             "        Transportation: ">>
        \o mob
        \o <<"\n",
             "        Special requirements: ">>
        \o OrNone(special)
        \o <<"\n",
             "        \n",
             "        MULTI-DESTINATION ", "RESEARCH", " REQUIREMENTS:\n",
             "        \n",
             "        FOR EACH DESTINATION (">>
        \o destinations_list
        \o <<"):\n",
             "        1. **Key Attractions & Activities** (prioritize based on ">>
        \o Join(ints, CommaSpace)
        \o <<")\n",
             "        2. **Recommended Stay Duration** (suggest optimal days out of ">>
        \o Str(days_per_destination)
        \o <<" average per destination", ")\n",
             "        3. **Best Accommodations** (">>
        \o Join(accom, CommaSpace)
        \o <<") with location recommendations\n",
             "        4. **Must-try Local Dining** and signature dishes\n",
             "        5. **Transportation within the city** (">>
        \o mob
        \o <<" preferences)\n",
             "        \n",
             "        ", "INTER-CITY LOGISTICS", ":\n",
             "        1. **Transportation between destinations** (flights, trains, buses, cars)\n",
             "        2. **Travel time and costs** between each destination\n",
             "        3. **", "Optimal route planning", "** (most efficient order to visit)\n",
             "        4. **Luggage considerations** for multi-city travel\n",
             "        \n",
             "        BUDGET BREAKDOWN:\n",
             "        1. **Per-destination costs** (accommodation, food, activities)\n",
             "        2. **Transportation costs** between cities\n",
             "        3. **Total estimated budget** for the entire trip\n",
             "        \n",
             "        PRACTICAL MULTI-CITY TIPS:\n",
             "        1. **Packing strategies** for multiple destinations\n",
             "        2. **Weather variations** across different cities/regions\n",
             "        3. **Cultural differences** and customs for each destination\n",
             "        4. **Best booking strategies** for multi-city accommodations\n",
             "        5. **Time zone considerations** if applicable\n",
             "        \n",
             "        Please structure the response clearly for each destination and provide a comparative analysis.\n",
             "        ">>

\* The context of create_multi_destination_itinerary_prompt before the research
\* section is appended: single-destination or multi-destination text.
ItineraryContext(dests, days, start, end, trav, style, budget, ints, accom, mob, special) ==
    IF Len(dests) = 1 THEN
           <<"\n",
             "        Create a detailed ">>
        \o Str(days)
        \o <<"-day ", "itinerary", " for ">>
        \o dests[1]
        \o <<":\n",
             "        Duration: ">>
        \o Str(days)
        \o <<" days (from ">>
        \o IsoFormat(start)
        \o <<" to ">>
        \o IsoFormat(end)
        \o <<")\n",
             "        Travelers: ">>
        \o Str(trav)
        \o <<" people\n",
             "        Travel Style: ">>
        \o style
        \o <<"\n",
             "        Budget: ">>
        \o budget
        \o <<"\n",
             "        Interests: ">>
        \o Join(ints, CommaSpace)
        \o <<"\n",
             "        Accommodations: ">>
        \o Join(accom, CommaSpace)
        \o <<"\n",
             "        Transportation: ">>
        \o mob
        \o <<"\n",
             "        Special Requirements: ">>
        \o OrNone(special)
        \o <<"\n",
             "        ">>
    ELSE
        LET destinations_list == Join(dests, CommaSpace)
            days_per_destination == days \div Len(dests)
        IN
           <<"\n",
             "        Create a detailed ">>
        \o Str(days)
        \o <<"-day MULTI-DESTINATION ", "itinerary", " covering: ">>
        \o destinations_list
        \o <<"\n",
             "        Duration: ">>
        \o Str(days)
        \o <<" days total (from ">>
        \o IsoFormat(start)
        \o <<" to ">>
        \o IsoFormat(end)
        \o <<")\n",
             "        Travelers: ">>
        \o Str(trav)
        \o <<" people\n",
             "        Travel Style: ">>
        \o style
        \o <<"\n",
             "        Budget: ">>
        \o budget
        \o <<"\n",
             "        Interests: ">>
        \o Join(ints, CommaSpace)
        \o <<"\n",
             "        Accommodations: ">>
        \o Join(accom, CommaSpace)
        \o <<"\n",
             "        Transportation: ">>
        \o mob
        \o <<"\n",
             "        Special Requirements: ">>
        \o OrNone(special)
        \o <<"\n",
             "        \n",
             "        MULTI-DESTINATION ", "ITINERARY", " REQUIREMENTS:\n",
             "        \n",
             "        1. **", "OPTIMAL ROUTE PLANNING", "**:\n",
             "           - Determine the best order to visit destinations\n",
             "           - Consider geographical proximity and transportation efficiency\n",
             "           - Factor in arrival/departure logistics\n",
             "        \n",
             "        2. **TIME ALLOCATION**:\n",
             "           - Distribute ">>
        \o Str(days)
        \o <<" days across ">>
        \o Str(Len(dests))
        \o <<" destinations\n",
             "           - Suggest ideal duration for each destination based on attractions\n",
             "           - Account for travel days between destinations\n",
             "        \n",
             "        3. **DAY-BY-DAY BREAKDOWN**:\n",
             "           For each day, specify:\n",
             "           - **Location**: Which destination you're in\n",
             "           - **Morning**: Specific activities with timing\n",
             "           - **Afternoon**: Attractions/experiences with travel time\n",
             "           - **Evening**: Dining and entertainment recommendations\n",
             "           - **Travel days**: Detailed transportation between cities\n",
             "        \n",
             "        4. **", "TRANSITION PLANNING", "**:\n",
             "           - **Check-out/Check-in logistics**\n",
             "           - **Transportation booking details** (flights, trains, etc.)\n",
             "           - **Luggage handling** during city transitions\n",
             "           - **Buffer time** for unexpected delays\n",
             "        \n",
             "        5. **DESTINATION-SPECIFIC HIGHLIGHTS**:\n",
             "           For each destination, prioritize:\n",
             "           - Must-see attractions based on ">>
        \o Join(ints, CommaSpace)
        \o <<"\n",
             "           - Local experiences unique to that location\n",
             "           - Best dining spots for authentic cuisine\n",
             "           - Cultural activities and local customs\n",
             "        \n",
             "        6. **PRACTICAL CONSIDERATIONS**:\n",
             "           - **Weather-appropriate activities** for travel dates\n",
             "           - **Booking priorities** (what to reserve in advance)\n",
             "           - **Emergency contacts** for each destination\n",
             "           - **Communication tips** (language, currency, customs)\n",
             "        \n",
             "        Please structure as:\n",
             "        - **Overview & Route Summary**\n",
             "        - **Day 1-X: [Destination 1]**\n",
             "        - **Day X: Travel Day (Destination 1 -> Destination 2)**\n",
             "        - **Day X-Y: [Destination 2]**\n",
             "        - **Continue for all destinations...**\n",
             "        - **Final Tips & Recommendations**\n",
             "        ">>

\* A variant that gives every request the single-destination text.
ItineraryPromptSingleText(dests, days, start, end, trav, style, budget, ints, accom, mob, special, research) ==
    LET context == ItineraryContext(<<dests[1]>>, days, start, end, trav, style,
                                    budget, ints, accom, mob, special)
    IN  IF Truthy(research)
        THEN context \o <<"\n\n", "RESEARCH", " INFORMATION TO INCORPORATE:\n">> \o research[1]
        ELSE context

\* A variant that cuts the research text down to its first token.
ItineraryPromptTruncatesResearch(dests, days, start, end, trav, style, budget, ints, accom, mob, special, research) ==
    LET context == ItineraryContext(dests, days, start, end, trav, style,
                                    budget, ints, accom, mob, special)
    IN  IF Truthy(research)
        THEN context \o <<"\n\n", "RESEARCH", " INFORMATION TO INCORPORATE:\n">>
                     \o Take(research[1], 1)
        ELSE context

\* A variant that reads the session: it mentions whether a key is set.
ItineraryPromptReadsSession(dests, days, start, end, trav, style, budget, ints, accom, mob, special, research) ==
    LET context == ItineraryContext(dests, days, start, end, trav, style,
                                    budget, ints, accom, mob, special)
                   \o (IF hf_api_key # "" THEN <<"(online)">> ELSE <<>>)
    IN  IF Truthy(research)
        THEN context \o <<"\n\n", "RESEARCH", " INFORMATION TO INCORPORATE:\n">> \o research[1]
        ELSE context

\* create_multi_destination_itinerary_prompt: the context, and under its label the
\* research text when there is one (lines 483-486).
create_multi_destination_itinerary_prompt(dests, days, start, end, trav, style, budget, ints, accom, mob, special, research) ==
    LET context == ItineraryContext(dests, days, start, end, trav, style,
                                    budget, ints, accom, mob, special)
    IN  IF Truthy(research)
        THEN context \o <<"\n\n", "RESEARCH", " INFORMATION TO INCORPORATE:\n">> \o research[1]
        ELSE context

\* tips_prompt of the Quick Tips handler (lines 612-615).
tips_prompt(dests) ==
    IF Len(dests) > 1
    THEN <<"Provide essential multi-destination travel tips for visiting ">>
         \o Join(dests, CommaSpace)
         \o <<" in a single trip. Include inter-city travel logistics, packing strategies, and destination-specific advice.">>
    ELSE <<"Provide essential travel tips for visiting ">> \o dests[1]

\* A variant that tests the two keywords in the other order.
OfflineItineraryFirst(p) ==
    LET response ==
            IF ContainsLowered(p, "itinerary") THEN generate_itinerary_template(p)
            ELSE IF ContainsLowered(p, "research") THEN generate_research_template(p)
            ELSE generate_tips_template(p)
    IN  [content |-> response, client |-> None, resolver_calls |-> 0, calls |-> 0,
         raised |-> None]

\* A variant that answers a prompt it cannot classify with an error text.
OfflineErrorOnUnknown(p) ==
    LET response ==
            IF ContainsLowered(p, "research") THEN generate_research_template(p)
            ELSE IF ContainsLowered(p, "itinerary") THEN generate_itinerary_template(p)
            ELSE <<"Error: ", "unknown request">>
    IN  [content |-> response, client |-> None, resolver_calls |-> 0, calls |-> 0,
         raised |-> None]

\* OfflineAgent.run(prompt): "research" is looked for first, then "itinerary",
\* both in prompt.lower(); it calls nothing else.
OfflineAgent_run(p) ==
    LET response ==
            IF ContainsLowered(p, "research") THEN generate_research_template(p)
            ELSE IF ContainsLowered(p, "itinerary") THEN generate_itinerary_template(p)
            ELSE generate_tips_template(p)
    IN  [content |-> response, client |-> None, resolver_calls |-> 0, calls |-> 0,
         raised |-> None]

----------------------------------------------------------------------------
\* The credential and the remote client (lines 10-54).

\* A variant in which the environment's key comes first.
GetHfClientEnvFirst(session_key, env_key) ==
    LET api_key == IF env_key # "" THEN env_key ELSE session_key
    IN  IF api_key = "" \/ api_key = Sentinel THEN None ELSE Some(api_key)

\* get_hf_client(): the client, stood for by the key it is built with, or None.
\* InferenceClient(provider=..., api_key=...) only stores its arguments, so the
\* except branch of lines 16-18 is not taken.
get_hf_client(session_key, env_key) ==
    LET api_key == IF session_key # "" THEN session_key ELSE env_key
    IN  IF api_key = "" \/ api_key = Sentinel THEN None ELSE Some(api_key)

NoCredentialError ==
    <<"Error: HuggingFace API key not provided or invalid. Please set your API key in the sidebar.">>

RemoteUnavailableError(e) == <<"Error: All HuggingFace models unavailable. ">> \o e

\* A variant that answers with the offline research text when the endpoint raises.
ChatCompletionOfflineFallback(session_key, env_key, outcome) ==
    LET c == get_hf_client(session_key, env_key)
    IN  IF c = None
        THEN [content |-> NoCredentialError, client |-> c, calls |-> 0, raised |-> None]
        ELSE IF outcome.raises
        THEN [content |-> generate_research_template(<<>>), client |-> c, calls |-> 1,
              raised |-> Some(outcome.text)]
        ELSE [content |-> outcome.text, client |-> c, calls |-> 1, raised |-> None]

\* A variant that calls the endpoint without looking at the client first.
ChatCompletionNoClientCheck(session_key, env_key, outcome) ==
    LET c == get_hf_client(session_key, env_key)
    IN  IF outcome.raises
        THEN [content |-> RemoteUnavailableError(outcome.text), client |-> c, calls |-> 1,
              raised |-> Some(outcome.text)]
        ELSE [content |-> outcome.text, client |-> c, calls |-> 1, raised |-> None]

\* hf_chat_completion(messages): the text returned, with the calls it made.  The
\* endpoint's answer is the outcome: it raises with a message, or returns a text.
hf_chat_completion(session_key, env_key, outcome) ==
    LET c == get_hf_client(session_key, env_key)
    IN  IF c = None
        THEN [content |-> NoCredentialError, client |-> c, calls |-> 0, raised |-> None]
        ELSE IF outcome.raises
        THEN [content |-> RemoteUnavailableError(outcome.text), client |-> c, calls |-> 1,
              raised |-> Some(outcome.text)]
        ELSE [content |-> outcome.text, client |-> c, calls |-> 1, raised |-> None]

\* HFChatAgent.run(prompt): nothing between its try and except raises, so the
\* response carries what hf_chat_completion returned.
HFChatAgent_run(p, session_key, env_key, outcome) ==
    LET r == hf_chat_completion(session_key, env_key, outcome)
    IN  [content |-> r.content, client |-> r.client, resolver_calls |-> 1,
         calls |-> r.calls, raised |-> r.raised]

----------------------------------------------------------------------------
\* The form.  The sidebar's preferences and the two inputs below the dates stay at
\* the values the widgets start with (lines 263-267, 313-314).
travel_style == <<"Honeymoon">>

budget_range == <<"Mid-range ($$)">>

accommodation_type == << <<"Hotels">> >>

interests == << <<"Food & Dining">>, <<"Nature">> >>

mobility == <<"Walking">>

travelers == 2

special_requirements == <<>>

Dates == 1..MaxDate

\* What the user types into "Destination(s)".
DestinationInputs ==
    { <<>>,
      <<"Tokyo">>,
      <<"Tokyo", ",", " ", "Japan">>,
      <<" ", ",", " ">> }

\* What the endpoint may do with a request: return a text (the empty one too), or
\* raise with a message.
RemoteTexts == { <<>>, <<"Here is your plan.">> }

ErrorMessages == { <<"401 Unauthorized">> }

Outcomes == {[raises |-> FALSE, text |-> t] : t \in RemoteTexts}
            \cup {[raises |-> TRUE, text |-> m] : m \in ErrorMessages}

----------------------------------------------------------------------------
\* The download button's file name (lines 641-646).

\* A variant that names every destination, however many there are.
DownloadFilenameAllNames(dests, days) ==
    LET underscored == [i \in DOMAIN dests |->
                           Replace(Replace(dests[i], <<",", " ">>, <<"_">>), <<" ">>, <<"_">>)]
    IN  Join(underscored, <<"_">>) \o <<"_">> \o Str(days) \o <<"days_", "itinerary", ".txt">>

\* filename: the first three names, ', ' and ' ' replaced by '_', joined by '_';
\* "_plus{n-3}more" for a longer list; then "_{num_days}days_itinerary.txt".
DownloadFilename(dests, days) ==
    LET first == Take(dests, 3)
        underscored == [i \in DOMAIN first |->
                           Replace(Replace(first[i], <<",", " ">>, <<"_">>), <<" ">>, <<"_">>)]
        filename_destinations ==
            Join(underscored, <<"_">>)
            \o (IF Len(dests) > 3 THEN <<"_plus">> \o Str(Len(dests) - 3) \o <<"more">>
                ELSE <<>>)
    IN  filename_destinations \o <<"_">> \o Str(days) \o <<"days_", "itinerary", ".txt">>

----------------------------------------------------------------------------
\* One run of the script.

\* A variant in which the session key follows the text input, empty or not.
SidebarKeyFollowsInput(key_in, session_key) == key_in

\* Lines 247-248: the session key follows the text input only when it is not empty.
SidebarKey(key_in, session_key) == IF key_in # "" THEN key_in ELSE session_key

\* Lines 489-495: use_offline = not st.session_state.hf_api_key.
SelectAgentClass(session_key) ==
    IF session_key = "" THEN "OfflineAgent" ELSE "HFChatAgent"

\* agent.run(prompt) of the chosen class.
AgentRun(cls, p, session_key, env_key, outcome) ==
    IF cls = "OfflineAgent" THEN OfflineAgent_run(p)
    ELSE HFChatAgent_run(p, session_key, env_key, outcome)

\* The run's record when no agent ran.
NoRun == [content |-> None, client |-> None, resolver_calls |-> 0, calls |-> 0,
          raised |-> None]

\* The operation a pressed button starts, inside the branch of line 487.
Operation(button, ok) ==
    IF ~ok THEN "none"
    ELSE CASE button = "research_btn" -> "Research"
           [] button = "generate_btn" -> "Plan"
           [] button = "quick_tips_btn" -> "Tips"
           [] OTHER -> "none"

\* A variant that adds the response to what the field already holds.
StoredAppended(old, text) == IF old = None THEN Some(text) ELSE Some(old[1] \o text)

\* st.session_state.<field> = response.content (lines 588, 605): the field holds
\* the response, whatever it held before.
Stored(old, text) == Some(text)

\* The whole script, run with the widget values given and at most one button pressed.
Script(key_in, raw, start, end, button, outcome) ==
    LET key == SidebarKey(key_in, hf_api_key)
        dests == ParseDestinations(raw)
        days == NumDays(start, end)
        ok == Actionable(raw, days, dests)
        cls == IF ok THEN SelectAgentClass(key) ELSE "none"
        the_op == Operation(button, ok)
        p == CASE the_op = "Research" ->
                    create_multi_destination_research_prompt(dests, days, travel_style,
                        travelers, budget_range, interests, accommodation_type, mobility,
                        special_requirements)
               [] the_op = "Plan" ->
                    create_multi_destination_itinerary_prompt(dests, days, start, end,
                        travelers, travel_style, budget_range, interests,
                        accommodation_type, mobility, special_requirements,
                        research_results)
               [] the_op = "Tips" -> tips_prompt(dests)
               [] OTHER -> <<>>
        r == IF the_op = "none" THEN NoRun ELSE AgentRun(cls, p, key, env, outcome)
    IN  /\ pc = "app"
        /\ user_provided_key' = key_in
        /\ destination' = raw
        /\ start_date' = start
        /\ end_date' = end
        /\ hf_api_key' = key
        /\ destinations' = dests
        /\ num_days' = days
        /\ AgentClass' = cls
        /\ op' = the_op
        /\ prompt' = p
        /\ content' = IF the_op = "none" THEN None ELSE Some(r.content)
        /\ client' = r.client
        /\ resolver_calls' = r.resolver_calls
        /\ calls' = r.calls
        /\ raised' = r.raised
        /\ research_results' =
               IF the_op = "Research" THEN Stored(research_results, r.content)
               ELSE research_results
        /\ itinerary' = IF the_op = "Plan" THEN Stored(itinerary, r.content) ELSE itinerary
        /\ filename' = IF ok /\ Truthy(itinerary')
                       THEN Some(DownloadFilename(dests, days)) ELSE None
        /\ UNCHANGED <<env, earlier_prompt, pc>>

\* The buttons exist when the last run drew them, inside the branch of line 487.
ButtonsDrawn == Actionable(destination, num_days, destinations)

NoOutcome == [raises |-> FALSE, text |-> <<>>]

\* The user changes the API-key input.
EditKey ==
    \E k \in Keys \ {user_provided_key} :
        Script(k, destination, start_date, end_date, "none", NoOutcome)

\* The user changes the destination input.
EditDestination ==
    \E raw \in DestinationInputs \ {destination} :
        Script(user_provided_key, raw, start_date, end_date, "none", NoOutcome)

\* The user picks another start date.
PickStartDate ==
    \E d \in Dates \ {start_date} :
        Script(user_provided_key, destination, d, end_date, "none", NoOutcome)

\* The user picks another end date.
PickEndDate ==
    \E d \in Dates \ {end_date} :
        Script(user_provided_key, destination, start_date, d, "none", NoOutcome)

\* The user clicks "Research".
ResearchBtn ==
    /\ ButtonsDrawn
    /\ \E o \in Outcomes :
        Script(user_provided_key, destination, start_date, end_date, "research_btn", o)

\* The user clicks "Generate Itinerary".
GenerateBtn ==
    /\ ButtonsDrawn
    /\ \E o \in Outcomes :
        Script(user_provided_key, destination, start_date, end_date, "generate_btn", o)

\* The user clicks "Quick Tips".
QuickTipsBtn ==
    /\ ButtonsDrawn
    /\ \E o \in Outcomes :
        Script(user_provided_key, destination, start_date, end_date, "quick_tips_btn", o)

\* The session after the first run of the script: the key is the environment's
\* (lines 179-180), nothing is stored (lines 329-332), the form is untouched.
Init ==
    /\ env \in Keys
    /\ hf_api_key = env
    /\ research_results = None
    /\ itinerary = None
    /\ user_provided_key = ""
    /\ destination = <<>>
    /\ start_date = 1
    /\ end_date = MaxDate
    /\ destinations = <<>>
    /\ num_days = NumDays(1, MaxDate)
    /\ AgentClass = "none"
    /\ op = "none"
    /\ prompt = <<>>
    /\ content = None
    /\ client = None
    /\ resolver_calls = 0
    /\ calls = 0
    /\ raised = None
    /\ filename = None
    /\ earlier_prompt = None
    /\ pc = "app"

Next ==
    \/ EditKey
    \/ EditDestination
    \/ PickStartDate
    \/ PickEndDate
    \/ ResearchBtn
    \/ GenerateBtn
    \/ QuickTipsBtn

Spec == Init /\ [][Next]_vars

----------------------------------------------------------------------------
\* The functions on their own: each is applied to inputs drawn from bounded sets.
\* pc names the function about to be applied, then says that it has been
\* ("resolved", "parsed", "answered", "named", "..._built").  A prompt builder is
\* applied a second time to the same arguments after the session has changed
\* ("..._again", then "..._rebuilt").

DestinationVocabulary == {"Tokyo", "Kyoto", " ", ","}

PromptVocabulary == {"Research", "research", "ITINERARY", "itinerary", "Tokyo", " "}

\* Destination names as the parsing leaves them: trimmed, not empty, no comma.
Names == { <<"Tokyo">>, <<"Kyoto">>, <<"New", " ", "York">> }

NameLists == TextsUpTo(Names, MaxNames) \ {<<>>}

\* Trip durations: num_days > 0, with one of two digits.
UnitDays == (1..MaxDays) \cup {12}

\* What st.session_state.research_results may hold when the itinerary prompt is built.
ResearchTexts ==
    {None, Some(<<>>), Some(<<"Here is your plan.">>), Some(generate_research_template(<<>>))}

FunctionsOfTheList == {"DownloadFilename", "research_prompt", "itinerary_prompt"}

UnitDefaults ==
    /\ itinerary = None
    /\ user_provided_key = ""
    /\ start_date = 1
    /\ AgentClass = "none"
    /\ op = "none"
    /\ content = None
    /\ client = None
    /\ resolver_calls = 0
    /\ calls = 0
    /\ raised = None
    /\ filename = None
    /\ earlier_prompt = None

UnitInit ==
    /\ UnitDefaults
    /\ pc \in {"get_hf_client", "ParseDestinations", "OfflineAgent_run"} \cup FunctionsOfTheList
    /\ IF pc = "get_hf_client"
       THEN hf_api_key \in Keys /\ env \in Keys
       ELSE hf_api_key = "" /\ env = ""
    /\ IF pc = "ParseDestinations"
       THEN destination \in TextsUpTo(DestinationVocabulary, MaxRawLen)
       ELSE destination = <<>>
    /\ IF pc = "OfflineAgent_run"
       THEN prompt \in TextsUpTo(PromptVocabulary, MaxPromptLen)
       ELSE prompt = <<>>
    /\ IF pc \in FunctionsOfTheList
       THEN destinations \in NameLists /\ num_days \in UnitDays
       ELSE destinations = <<>> /\ num_days = 0
    /\ end_date = IF pc \in FunctionsOfTheList THEN start_date + num_days ELSE MaxDate
    /\ IF pc = "itinerary_prompt"
       THEN research_results \in ResearchTexts
       ELSE research_results = None

CallGetHfClient ==
    /\ pc = "get_hf_client"
    /\ client' = get_hf_client(hf_api_key, env)
    /\ resolver_calls' = 1
    /\ pc' = "resolved"
    /\ UNCHANGED <<env, hf_api_key, research_results, itinerary, user_provided_key,
                   destination, start_date, end_date, destinations, num_days,
                   AgentClass, op, prompt, content, calls, raised, filename,
                   earlier_prompt>>

CallParseDestinations ==
    /\ pc = "ParseDestinations"
    /\ destinations' = ParseDestinations(destination)
    /\ pc' = "parsed"
    /\ UNCHANGED <<env, hf_api_key, research_results, itinerary, user_provided_key,
                   destination, start_date, end_date, num_days, AgentClass, op, prompt,
                   content, client, resolver_calls, calls, raised, filename,
                   earlier_prompt>>

CallOfflineAgentRun ==
    /\ pc = "OfflineAgent_run"
    /\ LET r == OfflineAgent_run(prompt)
       IN  /\ content' = Some(r.content)
           /\ client' = r.client
           /\ resolver_calls' = r.resolver_calls
           /\ calls' = r.calls
           /\ raised' = r.raised
    /\ AgentClass' = "OfflineAgent"
    /\ pc' = "answered"
    /\ UNCHANGED <<env, hf_api_key, research_results, itinerary, user_provided_key,
                   destination, start_date, end_date, destinations, num_days, op, prompt,
                   filename, earlier_prompt>>

CallDownloadFilename ==
    /\ pc = "DownloadFilename"
    /\ filename' = Some(DownloadFilename(destinations, num_days))
    /\ pc' = "named"
    /\ UNCHANGED <<env, hf_api_key, research_results, itinerary, user_provided_key,
                   destination, start_date, end_date, destinations, num_days,
                   AgentClass, op, prompt, content, client, resolver_calls, calls,
                   raised, earlier_prompt>>

\* The first or the second call of the research prompt builder (lines 581-584).
CallResearchPrompt ==
    /\ pc \in {"research_prompt", "research_prompt_again"}
    /\ prompt' = create_multi_destination_research_prompt(destinations, num_days,
                     travel_style, travelers, budget_range, interests,
                     accommodation_type, mobility, special_requirements)
    /\ earlier_prompt' = IF pc = "research_prompt" THEN None ELSE Some(prompt)
    /\ pc' = IF pc = "research_prompt" THEN "research_prompt_built"
             ELSE "research_prompt_rebuilt"
    /\ UNCHANGED <<env, hf_api_key, research_results, itinerary, user_provided_key,
                   destination, start_date, end_date, destinations, num_days,
                   AgentClass, op, content, client, resolver_calls, calls, raised,
                   filename>>

\* The first or the second call of the itinerary prompt builder (lines 598-602);
\* the research text is its last argument.
CallItineraryPrompt ==
    /\ pc \in {"itinerary_prompt", "itinerary_prompt_again"}
    /\ prompt' = create_multi_destination_itinerary_prompt(destinations, num_days,
                     start_date, end_date, travelers, travel_style, budget_range,
                     interests, accommodation_type, mobility, special_requirements,
                     research_results)
    /\ earlier_prompt' = IF pc = "itinerary_prompt" THEN None ELSE Some(prompt)
    /\ pc' = IF pc = "itinerary_prompt" THEN "itinerary_prompt_built"
             ELSE "itinerary_prompt_rebuilt"
    /\ UNCHANGED <<env, hf_api_key, research_results, itinerary, user_provided_key,
                   destination, start_date, end_date, destinations, num_days,
                   AgentClass, op, content, client, resolver_calls, calls, raised,
                   filename>>

\* Between two calls of a prompt builder the session changes: another key, another
\* stored itinerary; the stored research too where it is not an argument.
ChangeSession ==
    /\ pc \in {"research_prompt_built", "itinerary_prompt_built"}
    /\ \E k \in {"", UserKey(1)}, t \in {None, Some(<<"Here is your plan.">>)} :
          /\ <<k, t>> # <<hf_api_key, itinerary>>
          /\ hf_api_key' = k
          /\ itinerary' = t
          /\ research_results' =
                 IF pc = "research_prompt_built" THEN t ELSE research_results
    /\ pc' = IF pc = "research_prompt_built" THEN "research_prompt_again"
             ELSE "itinerary_prompt_again"
    /\ UNCHANGED <<env, user_provided_key, destination, start_date, end_date,
                   destinations, num_days, AgentClass, op, prompt, content, client,
                   resolver_calls, calls, raised, filename, earlier_prompt>>

UnitNext ==
    \/ CallGetHfClient
    \/ CallParseDestinations
    \/ CallOfflineAgentRun
    \/ CallDownloadFilename
    \/ CallResearchPrompt
    \/ CallItineraryPrompt
    \/ ChangeSession

UnitSpec == UnitInit /\ [][UnitNext]_vars

----------------------------------------------------------------------------
\* Vocabulary of the properties.

\* An operation of the last run ended in a failure: the remote-backed client found
\* no usable credential, or the call to the endpoint raised.
OperationFailed ==
    /\ op \in {"Research", "Plan"}
    /\ AgentClass = "HFChatAgent"
    /\ (client = None \/ raised # None)

\* The Credential Resolver yields no usable credential: both values are empty, or
\* the value it resolves to is the placeholder.
NoUsableCredential ==
    \/ hf_api_key = "" /\ env = ""
    \/ hf_api_key = Sentinel
    \/ hf_api_key = "" /\ env = Sentinel

\* The three texts of the offline client.
OfflineTemplates ==
    {generate_research_template(<<>>), generate_itinerary_template(<<>>),
     generate_tips_template(<<>>)}

\* The spellings of the two keywords the vocabulary holds.
ResearchSpellings == {"research", "Research", "RESEARCH"}

ItinerarySpellings == {"itinerary", "Itinerary", "ITINERARY"}

MentionsResearch(t) == \E i \in DOMAIN t : t[i] \in ResearchSpellings

MentionsItinerary(t) == \E i \in DOMAIN t : t[i] \in ItinerarySpellings

\* A text that reports a failure: it starts with one of the source's error prefixes
\* (lines 24, 35, 54).
IsFailureText(t) ==
    /\ t # <<>>
    /\ t[1] \in {NoCredentialError[1], "Error: All HuggingFace models unavailable. ",
                 "Error: "}

\* The segments of the raw destination text, named by the position before their
\* first token: 0, or the position of a comma.
SegmentStarts == {0} \cup {i \in DOMAIN destination : destination[i] = ","}

SegmentEnd(b) ==
    LET later == {c \in DOMAIN destination : c > b /\ destination[c] = ","}
    IN  IF later = {} THEN Len(destination) + 1
        ELSE CHOOSE c \in later : \A d \in later : c <= d

\* The positions of a segment that hold something other than whitespace.
Inked(b) == {i \in (b + 1)..(SegmentEnd(b) - 1) : destination[i] \notin Whitespace}

Lowest(S) == CHOOSE x \in S : \A y \in S : x <= y

Highest(S) == CHOOSE x \in S : \A y \in S : x >= y

KeptSegments == {b \in SegmentStarts : Inked(b) # {}}

\* destinations is the raw text split on commas, each segment trimmed, the blank
\* segments dropped, in the order of the input.
SplitTrimmedInOrder ==
    /\ Len(destinations) = Cardinality(KeptSegments)
    /\ \A b \in KeptSegments :
          destinations[Cardinality({x \in KeptSegments : x <= b})]
              = SubSeq(destination, Lowest(Inked(b)), Highest(Inked(b)))
    /\ \A i \in DOMAIN destinations : destinations[i] # <<>>

NoDuplicates ==
    \A i, j \in DOMAIN destinations : i # j => destinations[i] # destinations[j]

\* The prompt is one of the multi-destination texts.
MultiDestinationPrompt(t) ==
    \/ Contains(t, "-day multi-destination ")
    \/ Contains(t, "-day MULTI-DESTINATION ")
    \/ Contains(t, "Provide essential multi-destination travel tips for visiting ")

TokyoJapan == <<"Tokyo", ",", " ", "Japan">>

----------------------------------------------------------------------------
\* C1: whenever a Research or Plan operation ends in a failure (no usable
\* credential for the remote-backed client, or the endpoint call raises), the
\* session's research_results and itinerary hold the values they held before the
\* operation started.
C1_FailedOperationKeepsSession ==
    [][OperationFailed' =>
         (research_results' = research_results /\ itinerary' = itinerary)]_vars

\* C2: for every operation invoked, the offline client is used exactly when the
\* Credential Resolver yields no usable credential, and the remote-backed client
\* otherwise; a Research run with no usable credential returns the offline
\* research template.
C2_OfflineExactlyWithoutCredential ==
    op # "none" =>
        /\ (AgentClass = "OfflineAgent") = NoUsableCredential
        /\ (AgentClass = "HFChatAgent") = ~NoUsableCredential
        /\ (op = "Research" /\ NoUsableCredential =>
                content = Some(generate_research_template(prompt)))

\* C3: the Credential Resolver returns the session override whenever it is set,
\* whatever the environment value; the environment value when the override is
\* unset; and nothing when both are unset or the resolved value is the placeholder.
C3_ResolverPrecedence ==
    pc = "resolved" =>
        /\ (hf_api_key \notin {"", Sentinel} => client = Some(hf_api_key))
        /\ (hf_api_key = "" /\ env \notin {"", Sentinel} => client = Some(env))
        /\ (hf_api_key = "" /\ env = "" => client = None)
        /\ (hf_api_key = Sentinel => client = None)
        /\ (hf_api_key = "" /\ env = Sentinel => client = None)

\* C3's case: the override is set and differs from a key the environment holds.
C3_Witness ==
    /\ pc = "resolved"
    /\ hf_api_key = UserKey(1)
    /\ env = UserKey(2)
    /\ client = Some(UserKey(1))

C5_NoCredentialNoCall ==
    (op # "none" /\ AgentClass = "HFChatAgent" /\ resolver_calls = 1 /\ client = None) =>
        /\ content = Some(NoCredentialError)
        /\ calls = 0
        /\ raised = None

\* C5's case: a Research by the remote-backed client while the key is the placeholder.
C5_Witness ==
    /\ op = "Research"
    /\ AgentClass = "HFChatAgent"
    /\ hf_api_key = Sentinel
    /\ resolver_calls = 1
    /\ client = None

\* C6: the offline client classifies every prompt by case-insensitive match in a
\* fixed order: the research template when the prompt mentions "research" (even if
\* it also mentions "itinerary"), otherwise the itinerary template when it
\* mentions "itinerary", otherwise the tips template.
C6_OfflineClassification ==
    (pc = "answered" /\ AgentClass = "OfflineAgent") =>
        content = Some(IF MentionsResearch(prompt)
                       THEN generate_research_template(prompt)
                       ELSE IF MentionsItinerary(prompt)
                       THEN generate_itinerary_template(prompt)
                       ELSE generate_tips_template(prompt))

\* C6's case: a prompt that mentions both keywords, in capitals, itinerary first.
C6_Witness ==
    /\ pc = "answered"
    /\ prompt = <<"ITINERARY", " ", "Research">>
    /\ content = Some(generate_research_template(prompt))

\* C7: for every prompt the offline client returns a success result, never a
\* failure and never an exception, and the text holds the marker "Offline Mode".
C7_OfflineNeverFails ==
    (pc = "answered" /\ AgentClass = "OfflineAgent") =>
        /\ content # None
        /\ ~IsFailureText(content[1])
        /\ raised = None
        /\ Contains(content[1], "Offline Mode")

\* C7's case: a prompt with neither keyword.
C7_Witness ==
    /\ pc = "answered"
    /\ AgentClass = "OfflineAgent"
    /\ prompt = <<"Tokyo">>
    /\ Contains(content[1], "Offline Mode")

\* C8: an operation is invoked only for an actionable request: the parsed
\* destination list is not empty and end date minus start date is greater than 0;
\* with the end date before or on the start date no operation is invoked.
C8_OperationsOnlyWhenActionable ==
    /\ op # "none" => (destinations # <<>> /\ end_date - start_date > 0)
    /\ end_date <= start_date => op = "none"

\* C8's case: an operation ran on a one-day trip to one destination.
C8_Witness ==
    /\ op = "Tips"
    /\ destinations = << <<"Tokyo">> >>
    /\ end_date - start_date = 1

\* C9 as amended: the parsed destination list is the raw input split on commas,
\* each segment trimmed of whitespace, in input order, with no empty string;
\* duplicate entries are kept.
C9_SplitTrimKeepDuplicates == pc = "parsed" => SplitTrimmedInOrder

\* C9's case: an input with a space to trim and the same name twice.
C9_Witness ==
    /\ pc = "parsed"
    /\ destination = <<"Tokyo", ",", " ", "Tokyo">>
    /\ destinations = << <<"Tokyo">>, <<"Tokyo">> >>

\* C9 as stated: the parsed destination list is the raw input split on commas and
\* trimmed, in input order, and holds no empty string and no duplicate entry.
C9_Original == pc = "parsed" => (SplitTrimmedInOrder /\ NoDuplicates)

\* C10: the input "Tokyo, Japan" is handled as a single-destination trip: the
\* parsed list has exactly one entry and the single-destination prompt is used.
C10_TokyoJapanIsOneDestination ==
    (destination = TokyoJapan /\ op # "none") =>
        (Len(destinations) = 1 /\ ~MultiDestinationPrompt(prompt))

----------------------------------------------------------------------------
\* Vocabulary of the properties about the prompt builders.

\* The research prompt builder has returned the prompt the state holds.
BuiltResearch ==
    pc \in {"research_prompt_built", "research_prompt_again", "research_prompt_rebuilt"}

\* The itinerary prompt builder has returned the prompt the state holds.
BuiltItinerary ==
    pc \in {"itinerary_prompt_built", "itinerary_prompt_again", "itinerary_prompt_rebuilt"}

\* The label of the research section (line 484).
ResearchLabel == <<"\n\n", "RESEARCH", " INFORMATION TO INCORPORATE:\n">>

\* The research text given to the itinerary prompt builder counts as present when
\* it is neither None nor the empty text.
ResearchPresent == research_results # None /\ research_results[1] # <<>>

\* The text of the prompt that comes from the builder's template: the prompt
\* without the research section an itinerary prompt ends with.
FixedTemplateText ==
    IF BuiltItinerary /\ ResearchPresent
    THEN SubSeq(prompt, 1, Len(prompt) - Len(research_results[1]) - Len(ResearchLabel))
    ELSE prompt

\* Headings of the sections on travelling between the cities.
LogisticsHeadings == {"INTER-CITY LOGISTICS", "TRANSITION PLANNING"}

\* Headings of the sections on the order of the route.
RouteHeadings == {"Optimal route planning", "OPTIMAL ROUTE PLANNING"}

HasLogisticsSection(t) == \E i \in DOMAIN t : t[i] \in LogisticsHeadings

HasRouteSection(t) == \E i \in DOMAIN t : t[i] \in RouteHeadings

\* C11: for more than one destination the research prompt and the itinerary prompt
\* both hold an inter-city logistics section and a route-ordering section; for
\* exactly one destination the fixed template text of neither prompt holds them.
C11_LogisticsSectionsIffMultiDestination ==
    (BuiltResearch \/ BuiltItinerary) =>
        /\ Len(destinations) > 1 =>
              (HasLogisticsSection(FixedTemplateText) /\ HasRouteSection(FixedTemplateText))
        /\ Len(destinations) = 1 =>
              (~HasLogisticsSection(FixedTemplateText) /\ ~HasRouteSection(FixedTemplateText))

\* C11's case: an itinerary prompt for two destinations, with both sections.
C11_Witness ==
    /\ pc = "itinerary_prompt_built"
    /\ destinations = << <<"Tokyo">>, <<"Kyoto">> >>
    /\ Contains(prompt, "TRANSITION PLANNING")
    /\ Contains(prompt, "OPTIMAL ROUTE PLANNING")

DigitTokens == {Digit(d) : d \in 0..9}

\* The text states the figure k as the approximate number of days per destination:
\* the digits of k, and no digit before them, stand before the words that name it.
StatesDaysPerDestination(t, k) ==
    \E i \in DOMAIN t :
        LET d == Str(k)
        IN  /\ t[i] = " average per destination"
            /\ i > Len(d)
            /\ SubSeq(t, i - Len(d), i - 1) = d
            /\ (i - Len(d) > 1 => t[i - Len(d) - 1] \notin DigitTokens)

\* C12: for more than one destination the prompt of the research builder and the
\* prompt of the itinerary builder both state an approximate days-per-destination
\* figure, equal to the number of days divided by the number of destinations,
\* rounded down.
C12_DaysPerDestinationStated ==
    ((BuiltResearch \/ BuiltItinerary) /\ Len(destinations) > 1) =>
        StatesDaysPerDestination(prompt, num_days \div Len(destinations))

\* The text holds the label of the research section.
HasResearchSection(t) ==
    \E i \in DOMAIN t :
        i + Len(ResearchLabel) - 1 <= Len(t)
            /\ SubSeq(t, i, i + Len(ResearchLabel) - 1) = ResearchLabel

\* C13: for one destination or several, when a prior research text is present the
\* itinerary prompt ends with the labelled research section followed by the whole
\* research text, unchanged; when none is present the prompt holds no such section.
C13_ResearchAppendedVerbatim ==
    BuiltItinerary =>
        IF ResearchPresent
        THEN LET tail == ResearchLabel \o research_results[1]
             IN  /\ Len(prompt) > Len(tail)
                 /\ SubSeq(prompt, Len(prompt) - Len(tail) + 1, Len(prompt)) = tail
                 /\ ~HasResearchSection(FixedTemplateText)
        ELSE ~HasResearchSection(prompt)

\* C13's case: the prompt for one destination that ends with a research text of
\* many lines.
C13_Witness ==
    /\ pc = "itinerary_prompt_built"
    /\ destinations = << <<"New", " ", "York">> >>
    /\ research_results = Some(generate_research_template(<<>>))
    /\ SubSeq(prompt, Len(prompt) - Len(research_results[1]) + 1, Len(prompt))
           = research_results[1]
    /\ HasResearchSection(prompt)

----------------------------------------------------------------------------
\* Vocabulary of the properties about the session.

\* The last run executed a Research or a Plan and it did not end in a failure.
Succeeded == op \in {"Research", "Plan"} /\ ~OperationFailed

\* Both fields are as the session starts them.
FieldsUnset == research_results = None /\ itinerary = None

\* A successful Research leaves its response text in the research field, and a
\* successful Plan in the itinerary field: that text, not the old one with it.
SuccessOverwrites ==
    /\ (op' = "Research" /\ Succeeded') => research_results' = content'
    /\ (op' = "Plan" /\ Succeeded') => itinerary' = content'

\* A field that holds a text is not set back to None.
NeverUnset ==
    /\ research_results # None => research_results' # None
    /\ itinerary # None => itinerary' # None

\* A field that holds a non-empty text comes to hold the empty text only through
\* an operation of its own whose response text is empty.
EmptiedOnlyByEmptyResponse ==
    /\ (Truthy(research_results) /\ ~Truthy(research_results')) =>
           (op' = "Research" /\ content' = Some(<<>>) /\ research_results' = Some(<<>>))
    /\ (Truthy(itinerary) /\ ~Truthy(itinerary')) =>
           (op' = "Plan" /\ content' = Some(<<>>) /\ itinerary' = Some(<<>>))

\* A field that holds a non-empty text holds a non-empty text ever after.
StaysNonEmpty ==
    /\ Truthy(research_results) => Truthy(research_results')
    /\ Truthy(itinerary) => Truthy(itinerary')

\* C14 as amended: both fields are empty at session start; after a successful
\* Research (Plan) the research (itinerary) field equals exactly that operation's
\* response text, replacing the previous value; a field once set is never unset,
\* and a non-empty field becomes empty only when a later operation of its own
\* returns the empty text, which is stored like any other.
C14_LifecycleOverwriteOnly ==
    FieldsUnset /\ [][SuccessOverwrites /\ NeverUnset /\ EmptiedOnlyByEmptyResponse]_vars

\* C14's case: a later Research answered with the empty text has taken the place
\* of what the field held, while the itinerary of an earlier Plan is still stored.
C14_Witness ==
    /\ op = "Research"
    /\ Succeeded
    /\ content = Some(<<>>)
    /\ research_results = Some(<<>>)
    /\ Truthy(itinerary)

\* C14 as stated: both fields are empty at session start; a successful Research
\* (Plan) leaves exactly its response text in its field; and a field once
\* non-empty is never made empty again.
C14_Original == FieldsUnset /\ [][SuccessOverwrites /\ StaysNonEmpty]_vars

----------------------------------------------------------------------------
\* Vocabulary of the property about the download's file name.

\* A name with every space made an underscore.
Underscored(name) == [j \in DOMAIN name |-> IF name[j] = " " THEN "_" ELSE name[j]]

\* The names i..k of the destination list, underscored, each after a "_" but the first.
RECURSIVE NamesFrom(_, _)
NamesFrom(i, k) ==
    IF i > k THEN <<>>
    ELSE (IF i > 1 THEN <<"_">> ELSE <<>>) \o Underscored(destinations[i]) \o NamesFrom(i + 1, k)

\* The file name the claim describes for the destination list and the duration.
ExpectedFilename ==
    LET n == Len(destinations)
    IN  NamesFrom(1, IF n < 3 THEN n ELSE 3)
        \o (IF n > 3 THEN <<"_plus">> \o Str(n - 3) \o <<"more">> ELSE <<>>)
        \o <<"_">> \o Str(num_days) \o <<"days_", "itinerary", ".txt">>

\* C15: for a non-empty list of n names and d days the file name is the first
\* min(n,3) names with spaces made underscores, joined by "_", then "_plus{n-3}more"
\* exactly when n > 3, then "_{d}days_itinerary.txt"; it holds no comma and no space.
C15_FilenameShape ==
    pc = "named" =>
        /\ filename = Some(ExpectedFilename)
        /\ \A i \in DOMAIN filename[1] : filename[1][i] \notin {",", " "}
        /\ Contains(filename[1], "_plus") = (Len(destinations) > 3)

\* C15's case: four names, one of two words, and twelve days.
C15_Witness ==
    /\ pc = "named"
    /\ destinations = << <<"Tokyo">>, <<"New", " ", "York">>, <<"Kyoto">>, <<"Tokyo">> >>
    /\ num_days = 12
    /\ filename = Some(<<"Tokyo", "_", "New", "_", "York", "_", "Kyoto", "_plus", "1", "more",
                         "_", "1", "2", "days_", "itinerary", ".txt">>)

----------------------------------------------------------------------------
\* A prompt builder has been called a second time with the arguments of its first
\* call, after the session has changed.
CalledAgain == pc \in {"research_prompt_rebuilt", "itinerary_prompt_rebuilt"}

----------------------------------------------------------------------------
\* C17: in offline mode every Plan on an actionable request stores the offline
\* itinerary template as the session's itinerary, whatever operations came before
\* it, a Research whose result is fed into the itinerary prompt included.
C17_OfflinePlanStoresItineraryTemplate ==
    (op = "Plan" /\ AgentClass = "OfflineAgent") =>
        itinerary = Some(generate_itinerary_template(prompt))

\* The session's key is set.
KeySet == hf_api_key # ""

\* C18: once the session's key is non-empty it stays non-empty, a rerun with an
\* empty key input included; so once an operation has used the remote-backed
\* client, no later operation of the session uses the offline client.
C18_KeyStaysSet ==
    /\ [][KeySet => KeySet']_vars
    /\ []((op # "none" /\ AgentClass = "HFChatAgent") => [](AgentClass # "OfflineAgent"))

\* C18's case: the key came from the sidebar, the input was emptied again, and an
\* operation then ran on the remote-backed client.
C18_Witness ==
    /\ env = ""
    /\ user_provided_key = ""
    /\ KeySet
    /\ op = "Research"
    /\ AgentClass = "HFChatAgent"

====
